---- MODULE Spec2Model ----
(***************************************************************************)
(* Model of the two API route handlers of the repository:                  *)
(*   src/app/api/get-users/route.ts        GET /api/get-users?limit&delay   *)
(*   src/app/api/get-users/[id]/route.ts   GET /api/get-users/:id?delay     *)
(* Each handler is an async function; its await points (sleep, fetch,      *)
(* upstream.json()) are the steps of the state machine.  The two handlers  *)
(* run side by side, each serving one request at a time.                   *)
(***************************************************************************)
EXTENDS Integers, Sequences, FiniteSets

VARIABLES users, user, pages, layout, carousel

vars == <<users, user, pages, layout, carousel>>

\* The value of a part of the application that a specification leaves out.
NotMounted == "not mounted"

apiVars == <<users, user>>

nonApiVars == <<pages, layout, carousel>>

(***************************************************************************)
(* Strings are sequences of one-character strings, so that parseInt and    *)
(* String() can be modelled character by character.                        *)
(***************************************************************************)
Digits == <<"0", "1", "2", "3", "4", "5", "6", "7", "8", "9">>

DigitSet == {Digits[i] : i \in 1..10}

DigitVal(c) == (CHOOSE i \in 1..10 : Digits[i] = c) - 1

WhiteSpace == {" "}

Min(a, b) == IF a < b THEN a ELSE b

Max(a, b) == IF a > b THEN a ELSE b

\* A JavaScript number as far as the handlers use it: NaN or an integer.
NaN == [nan |-> TRUE, v |-> 0]

Num(n) == [nan |-> FALSE, v |-> n]

\* Number.isFinite on the values parseInt can return here.
IsFinite(x) == ~x.nan

\* StrWhiteSpaceChar* prefix removed (parseInt step 2).
RECURSIVE TrimStart(_)
TrimStart(s) ==
    IF s # <<>> /\ Head(s) \in WhiteSpace THEN TrimStart(Tail(s)) ELSE s

\* Length of the longest prefix of s made of radix-10 digits.
RECURSIVE DigitPrefixLen(_)
DigitPrefixLen(s) ==
    IF s # <<>> /\ Head(s) \in DigitSet THEN 1 + DigitPrefixLen(Tail(s)) ELSE 0

\* Mathematical value of a digit string.
RECURSIVE DigitsValue(_)
DigitsValue(s) ==
    IF s = <<>> THEN 0
    ELSE 10 * DigitsValue(SubSeq(s, 1, Len(s) - 1)) + DigitVal(s[Len(s)])

\* Number.parseInt(s, 10): leading white space skipped, optional sign, the
\* longest digit prefix; NaN when there is no digit; trailing text ignored.
ParseInt(s) ==
    LET t == TrimStart(s)
        signed == t # <<>> /\ Head(t) \in {"+", "-"}
        sign == IF t # <<>> /\ Head(t) = "-" THEN -1 ELSE 1
        u == IF signed THEN Tail(t) ELSE t
        n == DigitPrefixLen(u)
    IN IF n = 0 THEN NaN ELSE Num(sign * DigitsValue(SubSeq(u, 1, n)))

\* String(n) for an integer n.
RECURSIVE NatToString(_)
NatToString(n) ==
    IF n < 10 THEN <<Digits[n + 1]>>
    ELSE NatToString(n \div 10) \o <<Digits[(n % 10) + 1]>>

JsString(n) == IF n < 0 THEN <<"-">> \o NatToString(-n) ELSE NatToString(n)

\* A query parameter as URLSearchParams.get returns it: null or a string.
Absent == [present |-> FALSE, value |-> <<>>]

Present(s) == [present |-> TRUE, value |-> s]

\* searchParams.get(name) ?? dflt
OrDefault(q, dflt) == IF q.present THEN q.value ELSE dflt

(***************************************************************************)
(* JSON texts are sequences of tokens: punctuation and white space (p),    *)
(* string literals (s) and number literals (n).  The bodies the model      *)
(* exchanges are flat objects, which is all the handlers' own bodies       *)
(* ({error: ...}) need.                                                     *)
(***************************************************************************)
P(c) == [t |-> "p", v |-> c]

S(c) == [t |-> "s", v |-> c]

N(c) == [t |-> "n", v |-> c]

\* The number literals used, with the text JSON.stringify gives the number
\* each one parses to.
CanonNum(c) ==
    CASE c = "1.0" -> "1"
      [] c = "2e0" -> "2"
      [] OTHER -> c

IsWs(tok) == tok = P(" ")

NotWs(tok) == ~IsWs(tok)

\* The value a token stands for (a number loses its spelling).
TokValue(tok) == IF tok.t = "n" THEN N(CanonNum(tok.v)) ELSE tok

\* Position of key k among the members ms (0 when missing).
KeyIndex(ms, k) ==
    IF \E i \in 1..Len(ms) : ms[i][1] = k
    THEN CHOOSE i \in 1..Len(ms) : ms[i][1] = k
    ELSE 0

\* Object member assignment as JSON.parse does it: a repeated key keeps its
\* first position and takes the last value.
PutMember(ms, k, val) ==
    LET i == KeyIndex(ms, k)
    IN IF i = 0 THEN Append(ms, <<k, val>>) ELSE [ms EXCEPT ![i] = <<k, val>>]

\* Members of the token list t (white space removed, braces removed):
\* key : value , key : value ...
RECURSIVE Members(_, _)
Members(t, acc) ==
    IF Len(t) < 3 THEN acc
    ELSE Members(SubSeq(t, 5, Len(t)), PutMember(acc, t[1].v, TokValue(t[3])))

WellFormedMembers(t) ==
    \/ t = <<>>
    \/ /\ (Len(t) + 1) % 4 = 0
       /\ \A i \in 1..Len(t) :
            CASE i % 4 = 1 -> t[i].t = "s"
              [] i % 4 = 2 -> t[i] = P(":")
              [] i % 4 = 3 -> t[i].t \in {"s", "n"}
              [] OTHER -> t[i] = P(",")

Strip(text) == SelectSeq(text, NotWs)

\* Whether JSON.parse accepts the text (as a flat object).
JsonValid(text) ==
    LET t == Strip(text)
    IN /\ Len(t) >= 2
       /\ t[1] = P("{")
       /\ t[Len(t)] = P("}")
       /\ WellFormedMembers(SubSeq(t, 2, Len(t) - 1))

\* JSON.parse of a valid text: the object as its ordered members.
JsonParse(text) ==
    LET t == Strip(text)
    IN Members(SubSeq(t, 2, Len(t) - 1), <<>>)

\* JSON.stringify of an object: compact, members in insertion order.
RECURSIVE MemberTokens(_)
MemberTokens(ms) ==
    IF ms = <<>> THEN <<>>
    ELSE <<S(ms[1][1]), P(":"), ms[1][2]>>
         \o (IF Len(ms) > 1 THEN <<P(",")>> ELSE <<>>)
         \o MemberTokens(Tail(ms))

JsonStringify(ms) == <<P("{")>> \o MemberTokens(ms) \o <<P("}")>>

\* Two objects are the same JSON value: same keys, same value per key.
SameObject(a, b) ==
    /\ {a[i][1] : i \in 1..Len(a)} = {b[i][1] : i \in 1..Len(b)}
    /\ \A i \in 1..Len(a) : b[KeyIndex(b, a[i][1])][2] = a[i][2]

(***************************************************************************)
(* Values shared by the two handlers' environment.                         *)
(***************************************************************************)
\* A thrown value: null/undefined, or an object with or without a message.
Err(msg) == [nullish |-> FALSE, hasMessage |-> TRUE, message |-> msg]

ErrNoMessage == [nullish |-> FALSE, hasMessage |-> FALSE, message |-> ""]

ErrNullish == [nullish |-> TRUE, hasMessage |-> FALSE, message |-> ""]

NoErr == ErrNullish

\* What the upstream fetch settles to: a response, or a rejection.
Resp(status, body) ==
    [kind |-> "response", status |-> status, body |-> body, err |-> NoErr]

Throw(e) == [kind |-> "throw", status |-> 0, body |-> <<>>, err |-> e]

NoOutcome == [kind |-> "none", status |-> 0, body |-> <<>>, err |-> NoErr]

\* Response.ok
Ok(r) == r.status >= 200 /\ r.status <= 299

\* sleep(ms) of @/lib/sleep: a timer that is pending until ms have elapsed.
NoTimer == [state |-> "none", ms |-> 0]

sleep(ms) == [state |-> "pending", ms |-> ms]

SleepElapsed(t) == [t EXCEPT !.state = "elapsed"]

\* NextResponse.json(value, {status, headers: {"x-delay-applied": h}})
NextResponseJson(value, status, h) ==
    [status |-> status, xDelayApplied |-> Present(h), body |-> JsonStringify(value)]

\* SyntaxError of upstream.json() on a body that is not JSON.
JsonSyntaxError == Err("Unexpected token")

(***************************************************************************)
(* GET /api/get-users (src/app/api/get-users/route.ts)                     *)
(***************************************************************************)
DefaultLimit == <<"1", "0", "0">>

DefaultDelay == <<"2", "0", "0", "0">>

MaxDelay == 30000

MinDelay == 0

MaxLimit == 1000

MinLimit == 1

FallbackLimit == 100

FallbackDelay == 0

\* const limit = Number.parseInt(searchParams.get("limit") ?? "100", 10)
Limit(limitQ) == ParseInt(OrDefault(limitQ, DefaultLimit))

\* const delay = Number.parseInt(searchParams.get("delay") ?? "2000", 10)
Delay(delayQ) == ParseInt(OrDefault(delayQ, DefaultDelay))

\* Mutant of SafeDelay: the lower bound is forgotten.
SafeDelayNoFloor(delay) ==
    IF IsFinite(delay) THEN Min(delay.v, MaxDelay) ELSE FallbackDelay

SafeDelay(delay) ==
    IF IsFinite(delay) THEN Max(MinDelay, Min(delay.v, MaxDelay)) ELSE FallbackDelay

SafeLimit(limit) ==
    IF IsFinite(limit) THEN Max(MinLimit, Min(limit.v, MaxLimit)) ELSE FallbackLimit

\* Mutant of UsersUrl: the limit is hard-coded, as the page routes do.
UsersUrlFixedLimit(safeLimit) == [path |-> "users", id |-> "", limit |-> <<"1", "0", "0">>]

\* `https://dummyjson.com/users?limit=${safeLimit}`
UsersUrl(safeLimit) == [path |-> "users", id |-> "", limit |-> JsString(safeLimit)]

\* Mutant of ErrorText: || in place of ??, so an empty message is replaced.
ErrorTextOr(err) ==
    IF ~err.nullish /\ err.hasMessage /\ err.message # "" THEN err.message
    ELSE "Unknown error"

\* err?.message ?? "Unknown error"
ErrorText(err) ==
    IF ~err.nullish /\ err.hasMessage THEN err.message ELSE "Unknown error"

NotOkResponse(upstream, safeDelay) ==
    NextResponseJson(<<<<"error", S("Upstream fetch failed")>>>>,
                     upstream.status, JsString(safeDelay))

DataResponse(data, safeDelay) == NextResponseJson(data, 200, JsString(safeDelay))

\* Mutant of CatchResponse: the catch block forgets the header.
CatchResponseNoHeader(err, safeDelay) ==
    [NextResponseJson(<<<<"error", S(ErrorText(err))>>>>, 500, JsString(safeDelay))
        EXCEPT !.xDelayApplied = Absent]

CatchResponse(err, safeDelay) ==
    NextResponseJson(<<<<"error", S(ErrorText(err))>>>>, 500, JsString(safeDelay))

Idle ==
    [pc |-> "idle", limitQ |-> Absent, delayQ |-> Absent, id |-> "",
     safeDelay |-> 0, safeLimit |-> 0, timer |-> NoTimer, fetched |-> <<>>,
     upstream |-> NoOutcome, resp |-> <<>>]

\* fetch(url, {cache: "no-store"}) is called and awaited.
Fetch(h, url) == [h EXCEPT !.fetched = Append(@, url), !.pc = "fetching"]

\* The handler returns the response r.
Return(h, r) == [h EXCEPT !.resp = Append(@, r), !.pc = "done"]

\* Mutant of GET: the sleep is started but not awaited.
GETSleepNotAwaited(limitQ, delayQ) ==
    /\ users.pc = "idle"
    /\ LET safeDelay == SafeDelay(Delay(delayQ))
           safeLimit == SafeLimit(Limit(limitQ))
           h == [users EXCEPT !.limitQ = limitQ, !.delayQ = delayQ,
                              !.safeDelay = safeDelay, !.safeLimit = safeLimit]
       IN users' = IF safeDelay > 0
                   THEN Fetch([h EXCEPT !.timer = sleep(safeDelay)], UsersUrl(safeLimit))
                   ELSE Fetch(h, UsersUrl(safeLimit))
    /\ UNCHANGED user

\* The handler up to its first await: the query is read and clamped, then
\* either the sleep is awaited or (safeDelay = 0) the fetch is issued.
GET(limitQ, delayQ) ==
    /\ users.pc = "idle"
    /\ LET safeDelay == SafeDelay(Delay(delayQ))
           safeLimit == SafeLimit(Limit(limitQ))
           h == [users EXCEPT !.limitQ = limitQ, !.delayQ = delayQ,
                              !.safeDelay = safeDelay, !.safeLimit = safeLimit]
       IN users' = IF safeDelay > 0
                   THEN [h EXCEPT !.pc = "sleeping", !.timer = sleep(safeDelay)]
                   ELSE Fetch(h, UsersUrl(safeLimit))
    /\ UNCHANGED user

\* The sleep resolves and the handler goes on to the fetch.
GETAfterSleep ==
    /\ users.pc = "sleeping"
    /\ users.timer.state = "pending"
    /\ users' = Fetch([users EXCEPT !.timer = SleepElapsed(@)],
                      UsersUrl(users.safeLimit))
    /\ UNCHANGED user

\* Mutant of GETAfterFetch: a rejected fetch is tried once more.
GETAfterFetchRetry(o) ==
    /\ users.pc = "fetching"
    /\ LET h == [users EXCEPT !.upstream = o]
       IN users' = IF o.kind = "throw" /\ Len(users.fetched) < 2
                   THEN Fetch(users, UsersUrl(users.safeLimit))
                   ELSE IF o.kind = "throw"
                   THEN Return(h, CatchResponse(o.err, users.safeDelay))
                   ELSE IF ~Ok(o)
                   THEN Return(h, NotOkResponse(o, users.safeDelay))
                   ELSE [h EXCEPT !.pc = "parsing"]
    /\ UNCHANGED user

\* The fetch settles with outcome o: a rejection goes to the catch block, a
\* non-OK response is answered at once, an OK response has its body read.
GETAfterFetch(o) ==
    /\ users.pc = "fetching"
    /\ LET h == [users EXCEPT !.upstream = o]
       IN users' = IF o.kind = "throw"
                   THEN Return(h, CatchResponse(o.err, users.safeDelay))
                   ELSE IF ~Ok(o)
                   THEN Return(h, NotOkResponse(o, users.safeDelay))
                   ELSE [h EXCEPT !.pc = "parsing"]
    /\ UNCHANGED user

\* Mutant of GETAfterJson: upstream.json() is awaited outside the try block,
\* so its SyntaxError leaves the handler with no response.
GETAfterJsonUncaught ==
    /\ users.pc = "parsing"
    /\ users' = IF JsonValid(users.upstream.body)
                THEN Return(users, DataResponse(JsonParse(users.upstream.body),
                                                users.safeDelay))
                ELSE [users EXCEPT !.pc = "threw"]
    /\ UNCHANGED user

\* upstream.json() settles: the parsed data is returned, or the SyntaxError
\* is caught.
GETAfterJson ==
    /\ users.pc = "parsing"
    /\ users' = IF JsonValid(users.upstream.body)
                THEN Return(users, DataResponse(JsonParse(users.upstream.body),
                                                users.safeDelay))
                ELSE Return(users, CatchResponse(JsonSyntaxError, users.safeDelay))
    /\ UNCHANGED user

\* The response has gone out; the route takes the next request.
GETDone ==
    /\ users.pc = "done"
    /\ users' = Idle
    /\ UNCHANGED user

(***************************************************************************)
(* GET /api/get-users/:id (src/app/api/get-users/[id]/route.ts)            *)
(***************************************************************************)
IdDefaultDelay == <<"2", "0", "0", "0">>

IdMaxDelay == 30000

IdMinDelay == 0

IdFallbackDelay == 0

IdDelay(delayQ) == ParseInt(OrDefault(delayQ, IdDefaultDelay))

\* Mutant of IdSafeDelay: a non-numeric delay falls back to the default 2000.
IdSafeDelayFallback2000(delay) ==
    IF IsFinite(delay) THEN Max(IdMinDelay, Min(delay.v, IdMaxDelay)) ELSE 2000

IdSafeDelay(delay) ==
    IF IsFinite(delay) THEN Max(IdMinDelay, Min(delay.v, IdMaxDelay))
    ELSE IdFallbackDelay

\* `https://dummyjson.com/users/${id}`
UserUrl(id) == [path |-> "users/", id |-> id, limit |-> <<>>]

IdErrorText(err) ==
    IF ~err.nullish /\ err.hasMessage THEN err.message ELSE "Unknown error"

\* Mutant of IdNotOkResponse: every upstream failure is answered with 500.
IdNotOkResponse500(upstream, safeDelay) ==
    NextResponseJson(<<<<"error", S("Upstream fetch failed")>>>>,
                     500, JsString(safeDelay))

IdNotOkResponse(upstream, safeDelay) ==
    NextResponseJson(<<<<"error", S("Upstream fetch failed")>>>>,
                     upstream.status, JsString(safeDelay))

\* Mutant of IdDataResponse: the upstream object is cut to its first member.
IdDataResponseFirstMember(data, safeDelay) ==
    NextResponseJson(SubSeq(data, 1, 1), 200, JsString(safeDelay))

IdDataResponse(data, safeDelay) == NextResponseJson(data, 200, JsString(safeDelay))

\* Mutant of IdCatchResponse: a fixed text in place of the exception's message.
IdCatchResponseFixedText(err, safeDelay) ==
    NextResponseJson(<<<<"error", S("Internal Server Error")>>>>, 500,
                     JsString(safeDelay))

IdCatchResponse(err, safeDelay) ==
    NextResponseJson(<<<<"error", S(IdErrorText(err))>>>>, 500, JsString(safeDelay))

IdGET(id, delayQ) ==
    /\ user.pc = "idle"
    /\ LET safeDelay == IdSafeDelay(IdDelay(delayQ))
           h == [user EXCEPT !.id = id, !.delayQ = delayQ, !.safeDelay = safeDelay]
       IN user' = IF safeDelay > 0
                  THEN [h EXCEPT !.pc = "sleeping", !.timer = sleep(safeDelay)]
                  ELSE Fetch(h, UserUrl(id))
    /\ UNCHANGED users

IdGETAfterSleep ==
    /\ user.pc = "sleeping"
    /\ user.timer.state = "pending"
    /\ user' = Fetch([user EXCEPT !.timer = SleepElapsed(@)], UserUrl(user.id))
    /\ UNCHANGED users

IdGETAfterFetch(o) ==
    /\ user.pc = "fetching"
    /\ LET h == [user EXCEPT !.upstream = o]
       IN user' = IF o.kind = "throw"
                  THEN Return(h, IdCatchResponse(o.err, user.safeDelay))
                  ELSE IF ~Ok(o)
                  THEN Return(h, IdNotOkResponse(o, user.safeDelay))
                  ELSE [h EXCEPT !.pc = "parsing"]
    /\ UNCHANGED users

IdGETAfterJson ==
    /\ user.pc = "parsing"
    /\ user' = IF JsonValid(user.upstream.body)
               THEN Return(user, IdDataResponse(JsonParse(user.upstream.body),
                                                user.safeDelay))
               ELSE Return(user, IdCatchResponse(JsonSyntaxError, user.safeDelay))
    /\ UNCHANGED users

IdGETDone ==
    /\ user.pc = "done"
    /\ user' = Idle
    /\ UNCHANGED users

(***************************************************************************)
(* The requests and upstream outcomes the handlers are run on.             *)
(***************************************************************************)
\* Integer query values, sent as their decimal text.
DelayInts == {-5, 0, 1, 30000, 30001}

LimitInts == {-3, 0, 5, 1000, 1001}

\* Query values that are not integers: empty, text after digits, leading
\* white space, no digit at all.
OtherTexts == {<<>>, <<"1", "2", "x">>, <<" ", "7">>, <<"a", "b">>}

DelayQueries ==
    {Absent} \cup {Present(JsString(n)) : n \in DelayInts}
             \cup {Present(t) : t \in OtherTexts}

LimitQueries ==
    {Absent} \cup {Present(JsString(n)) : n \in LimitInts}
             \cup {Present(<<"x">>)}

Ids == {"1", "999"}

UserBody ==
    <<P("{"), S("id"), P(":"), N("1"), P(","), S("firstName"), P(":"),
      S("Emily"), P("}")>>

\* White space, a repeated key and numbers not in canonical spelling.
SpacedBody ==
    <<P("{"), P(" "), S("total"), P(":"), N("1.0"), P(","), S("limit"), P(":"),
      P(" "), N("5"), P(","), S("total"), P(":"), N("2e0"), P(" "), P("}")>>

NotFoundBody ==
    <<P("{"), S("message"), P(":"), S("User with id '999' not found"), P("}")>>

HtmlBody == <<P("<"), S("html"), P(">")>>

Outcomes ==
    { Resp(200, UserBody), Resp(200, SpacedBody), Resp(203, UserBody),
      Resp(200, HtmlBody), Resp(404, NotFoundBody), Resp(503, HtmlBody),
      Throw(Err("fetch failed")), Throw(Err("")), Throw(ErrNoMessage),
      Throw(ErrNullish) }

Init ==
    /\ users = Idle
    /\ user = Idle
    /\ pages = NotMounted
    /\ layout = NotMounted
    /\ carousel = NotMounted

Next ==
    \/ (\E limitQ \in LimitQueries, delayQ \in DelayQueries : GET(limitQ, delayQ)) /\ UNCHANGED nonApiVars
    \/ (GETAfterSleep) /\ UNCHANGED nonApiVars
    \/ (\E o \in Outcomes : GETAfterFetch(o)) /\ UNCHANGED nonApiVars
    \/ (GETAfterJson) /\ UNCHANGED nonApiVars
    \/ (GETDone) /\ UNCHANGED nonApiVars
    \/ (\E id \in Ids, delayQ \in DelayQueries : IdGET(id, delayQ)) /\ UNCHANGED nonApiVars
    \/ (IdGETAfterSleep) /\ UNCHANGED nonApiVars
    \/ (\E o \in Outcomes : IdGETAfterFetch(o)) /\ UNCHANGED nonApiVars
    \/ (IdGETAfterJson) /\ UNCHANGED nonApiVars
    \/ (IdGETDone) /\ UNCHANGED nonApiVars

Spec == Init /\ [][Next]_vars

\* The sleep, the upstream fetch and the reading of its body each complete.
Completion ==
    /\ WF_vars(GETAfterSleep /\ UNCHANGED nonApiVars)
    /\ WF_vars((\E o \in Outcomes : GETAfterFetch(o)) /\ UNCHANGED nonApiVars)
    /\ WF_vars(GETAfterJson /\ UNCHANGED nonApiVars)
    /\ WF_vars(IdGETAfterSleep /\ UNCHANGED nonApiVars)
    /\ WF_vars((\E o \in Outcomes : IdGETAfterFetch(o)) /\ UNCHANGED nonApiVars)
    /\ WF_vars(IdGETAfterJson /\ UNCHANGED nonApiVars)

\* The requests the completion property is checked on: the default delay, no
\* delay, and a delay clamped from above.
LiveDelayQueries == {Absent, Present(<<"0">>), Present(<<"3", "0", "0", "0", "1">>)}

LiveNext ==
    \/ (\E delayQ \in LiveDelayQueries : GET(Present(<<"5">>), delayQ)) /\ UNCHANGED nonApiVars
    \/ (GETAfterSleep) /\ UNCHANGED nonApiVars
    \/ (\E o \in Outcomes : GETAfterFetch(o)) /\ UNCHANGED nonApiVars
    \/ (GETAfterJson) /\ UNCHANGED nonApiVars
    \/ (GETDone) /\ UNCHANGED nonApiVars
    \/ (\E delayQ \in LiveDelayQueries : IdGET("1", delayQ)) /\ UNCHANGED nonApiVars
    \/ (IdGETAfterSleep) /\ UNCHANGED nonApiVars
    \/ (\E o \in Outcomes : IdGETAfterFetch(o)) /\ UNCHANGED nonApiVars
    \/ (IdGETAfterJson) /\ UNCHANGED nonApiVars
    \/ (IdGETDone) /\ UNCHANGED nonApiVars

SpecLive == Init /\ [][LiveNext]_vars /\ Completion

(***************************************************************************)
(* Properties of the API routes.                                           *)
(***************************************************************************)
Clamp(n, lo, hi) == IF n < lo THEN lo ELSE IF n > hi THEN hi ELSE n

\* C1: in both routes, for every integer delay query value n the effective
\* delay (the value slept and reported) is min(max(n, 0), 30000).
C1_DelayClamped ==
    \A n \in DelayInts :
        /\ users.delayQ = Present(JsString(n)) =>
              /\ users.safeDelay = Clamp(n, 0, 30000)
              /\ users.timer.state # "none" => users.timer.ms = Clamp(n, 0, 30000)
        /\ user.delayQ = Present(JsString(n)) =>
              /\ user.safeDelay = Clamp(n, 0, 30000)
              /\ user.timer.state # "none" => user.timer.ms = Clamp(n, 0, 30000)

\* Below, above and inside the range, after the handlers have acted.
C1_Witness ==
    /\ users.delayQ = Present(<<"3", "0", "0", "0", "1">>)
    /\ users.timer = [state |-> "elapsed", ms |-> 30000]
    /\ user.delayQ = Present(<<"-", "5">>)
    /\ user.safeDelay = 0
    /\ user.pc = "done"

\* C2: in GET /api/get-users, for every integer limit query value n the
\* effective limit is min(max(n, 1), 1000) and the one upstream request
\* carries exactly that limit.
C2_LimitClamped ==
    \A n \in LimitInts :
        users.limitQ = Present(JsString(n)) =>
            /\ users.safeLimit = Clamp(n, 1, 1000)
            /\ \A i \in 1..Len(users.fetched) :
                  /\ users.fetched[i].path = "users"
                  /\ ParseInt(users.fetched[i].limit) = Num(Clamp(n, 1, 1000))
                  /\ DigitPrefixLen(users.fetched[i].limit) = Len(users.fetched[i].limit)

C2_Witness ==
    /\ users.limitQ = Present(<<"5">>)
    /\ users.delayQ = Present(<<"0">>)
    /\ users.pc = "done"
    /\ users.fetched = <<[path |-> "users", id |-> "", limit |-> <<"5">>]>>

\* The handler and the request it is serving, for both routes.
Requests == {users, user}

\* C3: in both routes the upstream fetch is never issued before the sleep of
\* the effective delay has completed, and with an effective delay of 0 there
\* is no sleep: the fetch is issued directly.
C3_FetchAfterSleep ==
    \A h \in Requests :
        /\ (h.fetched # <<>> /\ h.safeDelay > 0) =>
              h.timer = [state |-> "elapsed", ms |-> h.safeDelay]
        /\ h.timer.state = "pending" => h.pc = "sleeping" /\ h.fetched = <<>>
        /\ (h.pc # "idle" /\ h.safeDelay = 0) =>
              h.timer.state = "none" /\ h.fetched # <<>>

\* One request fetching after its sleep, the other fetching with no sleep.
C3_Witness ==
    /\ users.pc = "fetching"
    /\ users.timer = [state |-> "elapsed", ms |-> 1]
    /\ user.pc = "fetching"
    /\ user.safeDelay = 0
    /\ user.timer.state = "none"

\* C4: every response of either route (upstream success, upstream non-OK,
\* caught exception) carries x-delay-applied, whose value is the request's
\* effective delay written in decimal.
C4_DelayHeader ==
    \A h \in Requests : \A i \in 1..Len(h.resp) :
        LET hd == h.resp[i].xDelayApplied
        IN /\ hd.present
           /\ hd.value # <<>>
           /\ \A k \in 1..Len(hd.value) : hd.value[k] \in DigitSet
           /\ Len(hd.value) > 1 => hd.value[1] # "0"
           /\ DigitsValue(hd.value) = h.safeDelay
           /\ h.timer.state # "none" => DigitsValue(hd.value) = h.timer.ms

\* A caught exception after a clamped sleep, and an upstream 404 with no sleep.
C4_Witness ==
    /\ users.upstream.kind = "throw"
    /\ users.delayQ = Present(<<"3", "0", "0", "0", "1">>)
    /\ Len(users.resp) = 1
    /\ users.resp[1].xDelayApplied = Present(<<"3", "0", "0", "0", "0">>)
    /\ user.upstream.status = 404
    /\ Len(user.resp) = 1
    /\ user.resp[1].xDelayApplied = Present(<<"0">>)

\* The members of a response body, when it is a JSON object.
BodyMembers(r) == JsonParse(r.body)

HasMember(ms, k) == \E i \in 1..Len(ms) : ms[i][1] = k

MemberValue(ms, k) == ms[CHOOSE i \in 1..Len(ms) : ms[i][1] = k][2]

NotOkOutcome(o) == o.kind = "response" /\ (o.status < 200 \/ o.status > 299)

\* C5: when the upstream answers with a non-OK status s, both routes answer
\* with status s and a JSON body that has an error field, and the upstream
\* body is not returned.
C5_NotOkPassedThrough ==
    \A h \in Requests :
        NotOkOutcome(h.upstream) =>
            /\ h.pc = "done"
            /\ Len(h.resp) = 1
            /\ h.resp[1].status = h.upstream.status
            /\ JsonValid(h.resp[1].body)
            /\ HasMember(BodyMembers(h.resp[1]), "error")
            /\ h.resp[1].body # h.upstream.body
            /\ JsonValid(h.upstream.body) =>
                  ~SameObject(BodyMembers(h.resp[1]), JsonParse(h.upstream.body))

C5_Witness ==
    /\ users.upstream = Resp(503, HtmlBody)
    /\ users.resp # <<>>
    /\ users.resp[1].status = 503
    /\ user.upstream = Resp(404, NotFoundBody)
    /\ user.resp # <<>>
    /\ user.resp[1].status = 404

\* C6: when the upstream fetch throws, both routes answer 500 with a JSON body
\* whose error field is the exception's message, or "Unknown error" when the
\* thrown value has no message; the handler always returns a response.
C6_ThrowGives500 ==
    \A h \in Requests :
        h.upstream.kind = "throw" =>
            /\ h.pc = "done"
            /\ Len(h.resp) = 1
            /\ h.resp[1].status = 500
            /\ JsonValid(h.resp[1].body)
            /\ HasMember(BodyMembers(h.resp[1]), "error")
            /\ LET e == h.upstream.err
                   shown == MemberValue(BodyMembers(h.resp[1]), "error")
               IN IF e.nullish \/ ~e.hasMessage
                  THEN shown = S("Unknown error")
                  ELSE shown = S(e.message)

\* A thrown Error with an empty message and a thrown null.
C6_Witness ==
    /\ users.upstream = Throw(Err(""))
    /\ users.resp # <<>>
    /\ users.resp[1].body = <<P("{"), S("error"), P(":"), S(""), P("}")>>
    /\ user.upstream = Throw(ErrNullish)
    /\ user.resp # <<>>
    /\ user.resp[1].body = <<P("{"), S("error"), P(":"), S("Unknown error"), P("}")>>

\* The error text a response body shows.
ShownError(r) == MemberValue(BodyMembers(r), "error")

\* C7 as stated: both kinds of error are surfaced verbatim, the exception's
\* message for a network exception and the upstream's own error content for
\* an HTTP failure (the shown text occurs in the upstream's body).
C7_ErrorsVerbatim ==
    \A h \in Requests :
        /\ (h.upstream.kind = "throw" /\ ~h.upstream.err.nullish
              /\ h.upstream.err.hasMessage /\ h.resp # <<>>) =>
              ShownError(h.resp[1]) = S(h.upstream.err.message)
        /\ (NotOkOutcome(h.upstream) /\ h.resp # <<>>) =>
              \E k \in 1..Len(h.upstream.body) :
                  h.upstream.body[k] = ShownError(h.resp[1])

\* C7 amended: an exception's message is surfaced verbatim with status 500;
\* an HTTP failure passes the upstream's status through, and its error text
\* is the fixed "Upstream fetch failed", whatever the upstream's body says.
C7_ErrorsSurfaced ==
    \A h \in Requests :
        /\ (h.upstream.kind = "throw" /\ ~h.upstream.err.nullish
              /\ h.upstream.err.hasMessage /\ h.resp # <<>>) =>
              /\ ShownError(h.resp[1]) = S(h.upstream.err.message)
              /\ h.resp[1].status = 500
        /\ (NotOkOutcome(h.upstream) /\ h.resp # <<>>) =>
              /\ ShownError(h.resp[1]) = S("Upstream fetch failed")
              /\ h.resp[1].status = h.upstream.status

C7_Witness ==
    /\ users.upstream = Resp(404, NotFoundBody)
    /\ users.resp # <<>>
    /\ ShownError(users.resp[1]) = S("Upstream fetch failed")
    /\ user.upstream = Throw(Err("fetch failed"))
    /\ user.resp # <<>>
    /\ ShownError(user.resp[1]) = S("fetch failed")

\* C8: each request makes exactly one upstream fetch attempt, whatever its
\* outcome: never a second one, and one by the time the fetch is awaited.
C8_OneFetch ==
    \A h \in Requests :
        /\ Len(h.fetched) <= 1
        /\ h.pc \in {"fetching", "parsing", "done"} => Len(h.fetched) = 1
        /\ h.pc \in {"idle", "sleeping"} => Len(h.fetched) = 0
        /\ h.resp # <<>> => Len(h.fetched) = 1

\* Answered after a rejection and after a non-OK status, one fetch each.
C8_Witness ==
    /\ users.pc = "done"
    /\ users.upstream.kind = "throw"
    /\ Len(users.fetched) = 1
    /\ user.pc = "done"
    /\ user.upstream.status = 503
    /\ Len(user.fetched) = 1

OkJsonOutcome(o) ==
    o.kind = "response" /\ o.status >= 200 /\ o.status <= 299 /\ JsonValid(o.body)

\* C9: when the upstream answers OK with a JSON body, both routes answer 200
\* with a body that is the same JSON value; the id route asked the upstream
\* for the id of its path.
C9_OkBodyUnmodified ==
    /\ \A h \in Requests :
          (OkJsonOutcome(h.upstream) /\ h.pc = "done") =>
              /\ Len(h.resp) = 1
              /\ h.resp[1].status = 200
              /\ JsonValid(h.resp[1].body)
              /\ SameObject(BodyMembers(h.resp[1]), JsonParse(h.upstream.body))
              /\ SameObject(JsonParse(h.upstream.body), BodyMembers(h.resp[1]))
    /\ \A i \in 1..Len(user.fetched) :
          user.fetched[i] = [path |-> "users/", id |-> user.id, limit |-> <<>>]

\* An upstream 203 answered with 200, and a body with white space, a repeated
\* key and uncanonical numbers answered with the same value.
C9_Witness ==
    /\ user.id = "1"
    /\ user.upstream = Resp(203, UserBody)
    /\ user.pc = "done"
    /\ user.resp[1].body = UserBody
    /\ users.upstream = Resp(200, SpacedBody)
    /\ users.pc = "done"
    /\ users.resp[1].body # SpacedBody

\* C10: for the same delay query (present, absent or non-numeric) and the
\* same upstream outcome the two routes apply the same effective delay and
\* give the same status, x-delay-applied header and body; the upstream URLs
\* differ.
C10_SameContract ==
    /\ (users.pc # "idle" /\ user.pc # "idle" /\ users.delayQ = user.delayQ) =>
          /\ users.safeDelay = user.safeDelay
          /\ users.timer.ms = user.timer.ms
          /\ (users.timer.state = "none") = (user.timer.state = "none")
    /\ (users.pc = "done" /\ user.pc = "done" /\ users.delayQ = user.delayQ
          /\ users.upstream = user.upstream) =>
          /\ users.resp[1].status = user.resp[1].status
          /\ users.resp[1].xDelayApplied = user.resp[1].xDelayApplied
          /\ users.resp[1].body = user.resp[1].body
    /\ \A i \in 1..Len(users.fetched), j \in 1..Len(user.fetched) :
          users.fetched[i] # user.fetched[j]

\* Both routes done on a non-numeric delay and a rejected fetch.
C10_Witness ==
    /\ users.pc = "done"
    /\ user.pc = "done"
    /\ users.delayQ = Present(<<"a", "b">>)
    /\ user.delayQ = Present(<<"a", "b">>)
    /\ users.upstream = Throw(ErrNoMessage)
    /\ user.upstream = Throw(ErrNoMessage)
    /\ users.resp = user.resp

\* C11: provided the sleep and the upstream fetch complete, every request to
\* either route eventually yields exactly one response; with an effective
\* delay of 0 the handler never waits on a timer.
C11_EveryRequestAnswered ==
    /\ (users.pc # "idle") ~> (users.pc = "done" /\ Len(users.resp) = 1)
    /\ (user.pc # "idle") ~> (user.pc = "done" /\ Len(user.resp) = 1)
    /\ [](\A h \in Requests :
            /\ Len(h.resp) <= 1
            /\ h.pc # "done" => h.resp = <<>>
            /\ h.pc \in {"idle", "sleeping", "fetching", "parsing", "done"}
            /\ (h.pc # "idle" /\ h.safeDelay = 0) => h.timer.state = "none")

\* A response after an unparsable upstream body with no delay, and one after
\* a full sleep.
C11_Witness ==
    /\ users.pc = "done"
    /\ users.safeDelay = 0
    /\ users.upstream = Resp(200, HtmlBody)
    /\ Len(users.resp) = 1
    /\ user.pc = "done"
    /\ user.timer = [state |-> "elapsed", ms |-> 30000]
    /\ Len(user.resp) = 1

(***************************************************************************)
(* The page routes (src/app/users/page.tsx, src/app/users/[slug]/page.tsx) *)
(* Each 'use cache' function has one cache entry per argument list; the    *)
(* cacheLife profile named in its body gives the entry's lifetime.  Time   *)
(* is counted in ticks.                                                     *)
(***************************************************************************)
MaxClock == 5

\* Lifetimes of the cacheLife profiles, in ticks.
SecondsLife == 1

MinutesLife == 3

Lifetime(profile) == IF profile = "seconds" THEN SecondsLife ELSE MinutesLife

Slugs == {"1", "2"}

UserPageEntry(slug) == <<"UserPage", slug>>

Entries == {<<"UserCount", "">>, <<"FetchUsers", "">>} \cup {UserPageEntry(g) : g \in Slugs}

NoEntry == [stored |-> FALSE, at |-> 0, life |-> "none"]

\* Whether the entry of e can be served at the current time.
Fresh(p, e) ==
    /\ p.cache[e].stored
    /\ p.now - p.cache[e].at < Lifetime(p.cache[e].life)

\* A call of a 'use cache' function whose body names the profile: a fresh
\* entry is served; otherwise the body runs, fetches from the upstream and
\* the result is stored under the profile's lifetime.
UseCache(p, e, profile) ==
    IF Fresh(p, e) THEN p
    ELSE [p EXCEPT !.cache[e] = [stored |-> TRUE, at |-> p.now, life |-> profile],
                   !.refetchAge[e] =
                       IF p.cache[e].stored THEN p.now - p.cache[e].at ELSE -1,
                   !.fetches[e] = Min(@ + 1, MaxClock + 1)]

\* Mutant of UserCount: cached with the 'seconds' profile.
UserCountSeconds(p) == UseCache(p, <<"UserCount", "">>, "seconds")

\* async function UserCount() { 'use cache'; cacheLife('minutes'); ... }
UserCount(p) == UseCache(p, <<"UserCount", "">>, "minutes")

\* async function FetchUsers() { 'use cache'; cacheLife('seconds'); ... }
FetchUsers(p) == UseCache(p, <<"FetchUsers", "">>, "seconds")

\* async function UserPage({ params }) { 'use cache'; cacheLife('minutes'); ... }
UserPage(p, slug) == UseCache(p, UserPageEntry(slug), "minutes")

PagesInit ==
    [now |-> 0,
     cache |-> [e \in Entries |-> NoEntry],
     refetchAge |-> [e \in Entries |-> -1],
     fetches |-> [e \in Entries |-> 0]]

\* /users is rendered: both cached components are called.
RenderUsersPage == pages' = FetchUsers(UserCount(pages))

\* /users/:slug is rendered.
RenderUserPage(slug) == pages' = UserPage(pages, slug)

\* Time passes.
PagesTick ==
    /\ pages.now < MaxClock
    /\ pages' = [pages EXCEPT !.now = @ + 1]

InitPages ==
    /\ users = Idle
    /\ user = Idle
    /\ pages = PagesInit
    /\ layout = NotMounted
    /\ carousel = NotMounted

NextPages ==
    \/ (RenderUsersPage) /\ UNCHANGED <<users, user, layout, carousel>>
    \/ (\E slug \in Slugs : RenderUserPage(slug)) /\ UNCHANGED <<users, user, layout, carousel>>
    \/ (PagesTick) /\ UNCHANGED <<users, user, layout, carousel>>

SpecPages == InitPages /\ [][NextPages]_vars

\* The lifetime, in ticks, the claim gives each entry.
ClaimedLife(e) == IF e[1] = "FetchUsers" THEN SecondsLife ELSE MinutesLife

\* C12: the page routes use time-bucketed lifetimes only: UserCount is cached
\* with 'minutes', FetchUsers with 'seconds', the user detail page with
\* 'minutes'; an entry is refetched from the upstream only after its own
\* lifetime has expired, independently of the other entries, and no entry is
\* ever invalidated otherwise.
C12_TimeBucketedCaching ==
    /\ [](\A e \in Entries :
            /\ pages.cache[e].stored =>
                  /\ Lifetime(pages.cache[e].life) = ClaimedLife(e)
                  /\ pages.cache[e].life = (IF e[1] = "FetchUsers" THEN "seconds" ELSE "minutes")
            /\ pages.refetchAge[e] = -1 \/ pages.refetchAge[e] >= ClaimedLife(e)
            /\ pages.fetches[e] > 1 => pages.refetchAge[e] >= ClaimedLife(e))
    /\ [][\A e \in Entries :
            pages'.cache[e] # pages.cache[e] =>
                /\ pages'.cache[e].stored
                /\ pages'.cache[e].at = pages.now
                /\ pages.cache[e].stored => pages.now - pages.cache[e].at >= ClaimedLife(e)]_vars

\* FetchUsers has been refetched after its lifetime while the UserCount entry
\* of the first render is still served.
C12_Witness ==
    /\ pages.now = 2
    /\ pages.cache[<<"FetchUsers", "">>].at = 2
    /\ pages.refetchAge[<<"FetchUsers", "">>] >= SecondsLife
    /\ pages.cache[<<"UserCount", "">>] = [stored |-> TRUE, at |-> 0, life |-> "minutes"]
    /\ pages.fetches[<<"UserCount", "">>] = 1
    /\ pages.cache[UserPageEntry("1")].stored

(***************************************************************************)
(* The carousel (src/app/framer-motion/page.tsx): per-item fade.           *)
(* Angles are integers in units of 1/10000 degree, so that the 0.001       *)
(* floors of the code are whole numbers.                                   *)
(***************************************************************************)
Deg(x) == x * 10000

\* 0.001 degree
Milli == Deg(1) \div 1000

Abs(x) == IF x < 0 THEN -x ELSE x

\* The % of JavaScript: the remainder takes the sign of the dividend.
JsRem(a, m) == IF a >= 0 THEN a % m ELSE -((-a) % m)

\* normalizeAngle(deg)
normalizeAngle(deg) ==
    LET d == JsRem(deg, Deg(360)) IN IF d < 0 THEN d + Deg(360) ELSE d

\* A value in [0, 1] as a fraction.
Frac(num, den) == [num |-> num, den |-> den]

\* The grid on which Math.pow(x, 0.9) is evaluated: x is rounded down to a
\* multiple of 1/PowGrid, and so is the result.
PowGrid == 7

RECURSIVE IntPow(_, _)
IntPow(b, e) == IF e = 0 THEN 1 ELSE b * IntPow(b, e - 1)

\* Math.pow(a / PowGrid, 0.9) * PowGrid, rounded down: the largest b with
\* b^10 <= a^9 * PowGrid.
PowNineTenths(a) ==
    CHOOSE b \in 0..PowGrid :
        /\ IntPow(b, 10) <= IntPow(a, 9) * PowGrid
        /\ \A c \in (b + 1)..PowGrid : IntPow(c, 10) > IntPow(a, 9) * PowGrid

\* 1 - t on the grid, for t = num/den in [0, 1].
OneMinusOnGrid(t) == ((t.den - t.num) * PowGrid) \div t.den

\* ArcLabel (the dots): signedDist, fadeT, opacity.
ArcLabelSignedDist(a, centerRefDeg) ==
    LET d == a - centerRefDeg
    IN JsRem(normalizeAngle(d) + Deg(180), Deg(360)) - Deg(180)

ArcLabelFadeT(d, clearDeg) ==
    LET absd == Abs(d)
        clear == Max(Milli, clearDeg)
        over == Max(0, absd - clear)
        denom == IF d > 0 THEN clear ELSE clear * 2
        den == Max(Milli, denom)
    IN IF over >= den THEN Frac(den, den) ELSE Frac(over, den)

\* Opacity in units of 1/(100 * PowGrid): 0.08 + pow(1 - t, 0.9) * 0.92
ArcLabelOpacity(t) == 8 * PowGrid + PowNineTenths(OneMinusOnGrid(t)) * 92

\* ArcPhaseLabel: the same three transforms.
ArcPhaseLabelSignedDist(a, centerRefDeg) ==
    LET d == a - centerRefDeg
    IN JsRem(normalizeAngle(d) + Deg(180), Deg(360)) - Deg(180)

ArcPhaseLabelFadeT(d, clearDeg) ==
    LET absd == Abs(d)
        clear == Max(Milli, clearDeg)
        over == Max(0, absd - clear)
        denom == IF d > 0 THEN clear ELSE clear * 2
        den == Max(Milli, denom)
    IN IF over >= den THEN Frac(den, den) ELSE Frac(over, den)

ArcPhaseLabelOpacity(t) == 8 * PowGrid + PowNineTenths(OneMinusOnGrid(t)) * 92

\* ArcContent (the cards).
ArcContentSignedDist(a, centerRefDeg) ==
    LET d == a - centerRefDeg
    IN JsRem(normalizeAngle(d) + Deg(180), Deg(360)) - Deg(180)

ArcContentFadeT(d, clearDeg) ==
    LET absd == Abs(d)
        clear == Max(Milli, clearDeg)
        over == Max(0, absd - clear)
        denom == IF d > 0 THEN clear ELSE clear * 2
        den == Max(Milli, denom)
    IN IF over >= den THEN Frac(den, den) ELSE Frac(over, den)

\* Mutant of ArcContentOpacity: the 0.92 factor is dropped.
ArcContentOpacityUnscaled(t) == 8 * PowGrid + PowNineTenths(OneMinusOnGrid(t)) * 100

ArcContentOpacity(t) == 8 * PowGrid + PowNineTenths(OneMinusOnGrid(t)) * 92

\* The inputs: half the item spacing (clearDeg), the center reference of the
\* desktop and handheld layouts, and the item's distance to it.
ClearDegs == {4, Milli, Deg(1), Deg(10) + Deg(1) \div 2, Deg(30), Deg(90)}

CenterRefDegs == {Deg(0), Deg(90)}

Components == {"ArcLabel", "ArcPhaseLabel", "ArcContent"}

\* Offsets from the center reference, in units of clearDeg/4, and far ones.
OffsetsOf(clearDeg) ==
    {(k * clearDeg) \div 4 : k \in -13..13}
        \cup {clearDeg + 1, -clearDeg - 1, Deg(180), -Deg(180), Deg(179), Deg(359),
              Deg(360), -Deg(360), -Deg(450), Deg(725)}

FadeInput(c, r, cl, o) ==
    [component |-> c, a |-> r + o, clearDeg |-> cl, centerRefDeg |-> r,
     rendered |-> FALSE, signedDist |-> 0, fadeT |-> Frac(0, 1), opacity |-> 0]

FadeInputs ==
    UNION {{FadeInput(c, r, cl, o) : c \in Components, r \in CenterRefDegs,
                                      o \in OffsetsOf(cl) \cup OffsetsOf(Deg(30))} :
           cl \in ClearDegs}

RenderArcLabel ==
    /\ layout.component = "ArcLabel" /\ ~layout.rendered
    /\ LET d == ArcLabelSignedDist(layout.a, layout.centerRefDeg)
           t == ArcLabelFadeT(d, layout.clearDeg)
       IN layout' = [layout EXCEPT !.rendered = TRUE, !.signedDist = d, !.fadeT = t,
                                   !.opacity = ArcLabelOpacity(t)]

RenderArcPhaseLabel ==
    /\ layout.component = "ArcPhaseLabel" /\ ~layout.rendered
    /\ LET d == ArcPhaseLabelSignedDist(layout.a, layout.centerRefDeg)
           t == ArcPhaseLabelFadeT(d, layout.clearDeg)
       IN layout' = [layout EXCEPT !.rendered = TRUE, !.signedDist = d, !.fadeT = t,
                                   !.opacity = ArcPhaseLabelOpacity(t)]

RenderArcContent ==
    /\ layout.component = "ArcContent" /\ ~layout.rendered
    /\ LET d == ArcContentSignedDist(layout.a, layout.centerRefDeg)
           t == ArcContentFadeT(d, layout.clearDeg)
       IN layout' = [layout EXCEPT !.rendered = TRUE, !.signedDist = d, !.fadeT = t,
                                   !.opacity = ArcContentOpacity(t)]

InitFade ==
    /\ users = Idle
    /\ user = Idle
    /\ pages = NotMounted
    /\ layout \in FadeInputs
    /\ carousel = NotMounted

NextFade ==
    \/ RenderArcLabel /\ UNCHANGED <<users, user, pages, carousel>>
    \/ RenderArcPhaseLabel /\ UNCHANGED <<users, user, pages, carousel>>
    \/ RenderArcContent /\ UNCHANGED <<users, user, pages, carousel>>

SpecFade == InitFade /\ [][NextFade]_vars

\* The item's distance to the center reference around the circle, computed
\* without the code's normalisation: the least |a - center + 360 k|.
CircularDistance(a, c) ==
    LET m == (a - c) % Deg(360) IN Min(m, Deg(360) - m)

\* C14: for every item angle and every positive spacing, fadeT lies in [0, 1]
\* and the opacity in [0.08, 1]; the opacity is 1 when the item is within
\* clearDeg of the center reference and 0.08 when fadeT is 1.
C14_FadeInRange ==
    layout.rendered =>
        /\ layout.fadeT.den > 0
        /\ 0 <= layout.fadeT.num /\ layout.fadeT.num <= layout.fadeT.den
        /\ 8 * PowGrid <= layout.opacity /\ layout.opacity <= 100 * PowGrid
        /\ CircularDistance(layout.a, layout.centerRefDeg) <= layout.clearDeg =>
              layout.fadeT.num = 0 /\ layout.opacity = 100 * PowGrid
        /\ layout.fadeT.num = layout.fadeT.den => layout.opacity = 8 * PowGrid
        /\ layout.fadeT.num = 0 => layout.opacity = 100 * PowGrid

\* A card part of the way out above the center: fadeT is 1/4.
C14_Witness ==
    /\ layout.rendered
    /\ layout.component = "ArcContent"
    /\ layout.clearDeg = Deg(30)
    /\ layout.signedDist = Deg(30) + Deg(30) \div 4
    /\ layout.fadeT = Frac(Deg(30) \div 4, Deg(30))
    /\ layout.opacity > 8 * PowGrid /\ layout.opacity < 100 * PowGrid

(***************************************************************************)
(* The carousel: height of the pinned scroll region.                       *)
(* sweepMultiplier is given in halves; heights are in units of 1/4 vh, so  *)
(* that the factor 2.5 and half multipliers are whole numbers.             *)
(***************************************************************************)
MaxItems == 4

\* A viewport measure: null before the first measurement, a number after.
Null == [isNull |-> TRUE, v |-> 0]

Measured(w) == [isNull |-> FALSE, v |-> w]

\* Viewport widths on both sides of the 768 and 920 breakpoints.
Widths == {0, 500, 767, 768, 920, 921, 1280}

PinVHPerItems == {28, 120}

SweepHalves == {1, 2, 3, 4}

\* vw ?? 0
width(vw) == IF vw.isNull THEN 0 ELSE vw.v

isMobile(vw) == width(vw) < 768

isTablet(vw) == width(vw) >= 768 /\ width(vw) <= 920

isHandheld(vw) == isMobile(vw) \/ isTablet(vw)

\* effectivePinVHPerItem, in units of 1/2 vh
effectivePinVHPerItem(vw, pinVHPerItem) ==
    IF isHandheld(vw) THEN pinVHPerItem * 5 ELSE pinVHPerItem * 2

\* totalPinHeight, in units of 1/4 vh
totalPinHeight(vw, items, pinVHPerItem, sweepHalves) ==
    Max(items, 1) * effectivePinVHPerItem(vw, pinVHPerItem) * Max(2, sweepHalves)

\* The first render: no viewport has been measured yet.
PinInputs ==
    {[items |-> i, pinVHPerItem |-> p, sweepMultiplier |-> sw, vw |-> Null,
      totalPinHeight |-> totalPinHeight(Null, i, p, sw)] :
        i \in 0..MaxItems, p \in PinVHPerItems, sw \in SweepHalves}

\* onResize: setVw(window.innerWidth || 0), and the render that follows.
onResize(innerWidth) ==
    /\ layout' = [layout EXCEPT
           !.vw = Measured(innerWidth),
           !.totalPinHeight = totalPinHeight(Measured(innerWidth), layout.items, layout.pinVHPerItem,
                                             layout.sweepMultiplier)]

InitPin ==
    /\ users = Idle
    /\ user = Idle
    /\ pages = NotMounted
    /\ layout \in PinInputs
    /\ carousel = NotMounted

NextPin ==
    \/ (\E w \in Widths : onResize(w)) /\ UNCHANGED <<users, user, pages, carousel>>

SpecPin == InitPin /\ [][NextPin]_vars

\* C15: the height of the pinned region, in vh, is items.length times
\* pinVHPerItem, for every items list and viewport.
C15_PinHeightAsDocumented ==
    layout.totalPinHeight = layout.items * layout.pinVHPerItem * 4

(***************************************************************************)
(* The carousel: angle mapping and magnetic snap.                          *)
(* Angles are integers in units of 1/100 degree, scroll progress in units  *)
(* of 1/UGrid, times in milliseconds, angular speed in deg/s, and the      *)
(* velocity of scroll progress in units of 1/100 per second.               *)
(***************************************************************************)
CDeg(x) == x * 100

\* Scroll progress u is k / UGrid for k in 0..UGrid.
UGrid == 50

\* The props the demo page passes to SemiCircleCarousel.
DemoProps ==
    [items |-> 4, itemsSpanPct |-> 35, startAngle |-> CDeg(-90), endAngle |-> CDeg(90),
     orbitDirection |-> "ccw", initialAngleOffset |-> CDeg(-90),
     centerContentAtStart |-> TRUE, sweepMultiplier |-> 1, ignoreReducedMotion |-> TRUE]

sA(vw, props) == IF isHandheld(vw) THEN CDeg(0) ELSE props.startAngle

eA(vw, props) == IF isHandheld(vw) THEN CDeg(180) ELSE props.endAngle

centerRefDeg(vw) == IF isHandheld(vw) THEN CDeg(90) ELSE CDeg(0)

\* n = Math.max(items.length, 2)
ItemsN(props) == Max(props.items, 2)

mid(vw, props) == (sA(vw, props) + eA(vw, props)) \div 2

span(vw, props) == Abs(eA(vw, props) - sA(vw, props))

\* itemsSpanPctForCalc, in percent
itemsSpanPctForCalc(vw, props) ==
    IF isHandheld(vw) THEN Min(100, Max(props.itemsSpanPct, 20)) ELSE props.itemsSpanPct

\* effHalfSpan = span * clamp(pct, 0.05, 1) * tabletSpread / 2, tabletSpread 1.5 or 1
effHalfSpan(vw, props) ==
    (span(vw, props) * Max(5, Min(100, itemsSpanPctForCalc(vw, props)))
        * (IF isTablet(vw) THEN 3 ELSE 2)) \div 400

startEff(vw, props) == mid(vw, props) - effHalfSpan(vw, props)

endEff(vw, props) == mid(vw, props) + effHalfSpan(vw, props)

\* baseAngles[i] = lerp(startEff, endEff, i / (n - 1)), for i in 0..items.length-1
baseAngles(vw, props) ==
    [i \in 0..(props.items - 1) |->
        startEff(vw, props)
            + ((endEff(vw, props) - startEff(vw, props)) * i) \div (ItemsN(props) - 1)]

effectiveInitialOffset(vw, props) ==
    IF isHandheld(vw) \/ props.centerContentAtStart
    THEN centerRefDeg(vw) - baseAngles(vw, props)[0]
    ELSE props.initialAngleOffset

\* requiredSweepHandheld and requiredSweepDesktop (the same expression)
requiredSweep(vw, props) ==
    LET last == baseAngles(vw, props)[ItemsN(props) - 1]
    IN IF props.orbitDirection = "ccw"
       THEN Max(0, last + effectiveInitialOffset(vw, props) - centerRefDeg(vw))
       ELSE Max(0, centerRefDeg(vw) - last - effectiveInitialOffset(vw, props))

\* deltaDeg, and runCheck's delta
deltaDeg(vw, props) ==
    IF ItemsN(props) > 1
    THEN Abs(endEff(vw, props) - startEff(vw, props)) \div (ItemsN(props) - 1)
    ELSE span(vw, props)

\* The values of one render, which the transforms and the snap effect of that
\* render close over.
Geometry(vw, props) ==
    [isHandheld |-> isHandheld(vw),
     centerRefDeg |-> centerRefDeg(vw),
     baseAngles |-> baseAngles(vw, props),
     effectiveInitialOffset |-> effectiveInitialOffset(vw, props),
     requiredSweep |-> requiredSweep(vw, props),
     deltaDeg |-> deltaDeg(vw, props)]

\* easeInOutCubic(k / den) * r, rounded down
easeInOutCubic(k, den, r) ==
    IF 2 * k < den
    THEN (4 * k * k * k * r) \div (den * den * den)
    ELSE r - (4 * (den - k) * (den - k) * (den - k) * r) \div (den * den * den)

\* cutoff = Math.max(0.01, 1 - tailPctDesktop), in units of 1/UGrid
DesktopCutoff == (UGrid * 88) \div 100

\* angleOffsetBaseMobile / angleOffsetBaseDesktop at scroll progress u
angleOffsetBase(u, g) ==
    LET uu == Max(0, Min(UGrid, u))
    IN IF g.isHandheld
       THEN easeInOutCubic(uu, UGrid, g.requiredSweep)
       ELSE IF uu < DesktopCutoff
            THEN easeInOutCubic(uu, DesktopCutoff, g.requiredSweep)
            ELSE g.requiredSweep

signed(u, g, props) ==
    IF props.orbitDirection = "ccw" THEN -angleOffsetBase(u, g) ELSE angleOffsetBase(u, g)

\* Mutant of angleOffset: the committed offset is left out.
angleOffsetUncommitted(u, g, props, c) == signed(u, g, props) + g.effectiveInitialOffset

\* angleOffset = v + effectiveInitialOffset + c
angleOffset(u, g, props, c) == signed(u, g, props) + g.effectiveInitialOffset + c

\* The thresholds of the snap effect.
velIdle == 18

syIdle == 25

idleHoldMs == 160

recheckMs == 120

\* uMinSnapGate = 0.02, in units of 1/UGrid
uMinSnapGate == (2 * UGrid) \div 100

\* The 0.2 degree of commitSnapToBase and runCheck
SnapEps == CDeg(1) \div 5

\* Time passes in steps of TickMs; the time since the last movement is
\* counted up to IdleCap, beyond which the code does not distinguish it.
TickMs == 60

IdleCap == idleHoldMs

\* The number of snaps (snapMV.set or animate in runCheck) after which no
\* further change event or timer is delivered.
MaxSnaps == 2

NullRef == "null"

AnimationRef == "animation"

NoAnim == [active |-> FALSE, pos |-> 0, target |-> 0]

\* dwellRef.current = { active: false, idx: null }; idx -1 stands for null
Released == [active |-> FALSE, idx |-> -1]

stopSnapAnim(c) ==
    IF c.snapAnimRef # NullRef
    THEN [c EXCEPT !.anim.active = FALSE, !.snapAnimRef = NullRef]
    ELSE c

\* Mutant of commitSnapToBase: tiny residuals are committed as well.
commitSnapToBaseAlways(c) ==
    LET v == c.snapMV
    IN IF v # 0
       THEN [stopSnapAnim(c) EXCEPT !.committedAngleMV = @ + v, !.snapMV = 0]
       ELSE c

commitSnapToBase(c) ==
    LET v == c.snapMV
    IN IF Abs(v) > SnapEps
       THEN [stopSnapAnim(c) EXCEPT !.committedAngleMV = @ + v, !.snapMV = 0]
       ELSE IF v # 0
            THEN [c EXCEPT !.snapMV = 0]
            ELSE c

\* if (dwellRef.current.active) dwellRef.current = { active: false, idx: null }
releaseDwell(c) == IF c.dwell.active THEN [c EXCEPT !.dwell = Released] ELSE c

\* norm = (((d % 360) + 540) % 360) - 180
snapNorm(d) == JsRem(JsRem(d, CDeg(360)) + CDeg(540), CDeg(360)) - CDeg(180)

\* The loop of runCheck over baseAngles, from index i on; inf stands for
\* bestAbs = Infinity.
RECURSIVE nearestLoop(_, _, _, _, _)
nearestLoop(i, best, raw, g, props) ==
    IF i >= props.items
    THEN best
    ELSE LET a == g.baseAngles[i] + raw
             d == a - g.centerRefDeg
             abs == Abs(snapNorm(d))
         IN IF best.inf \/ abs < best.bestAbs
            THEN nearestLoop(i + 1, [bestIdx |-> i, bestAbs |-> abs, inf |-> FALSE],
                             raw, g, props)
            ELSE nearestLoop(i + 1, best, raw, g, props)

nearest(raw, g, props) ==
    nearestLoop(0, [bestIdx |-> 0, bestAbs |-> 0, inf |-> TRUE], raw, g, props)

\* Mutant of withinThreshold: half the spacing instead of 0.35 of it.
withinThresholdHalf(best, g) == ~best.inf /\ best.bestAbs * 100 < g.deltaDeg * 50

\* bestAbs < threshold, with threshold = delta * 0.35
withinThreshold(best, g) == ~best.inf /\ best.bestAbs * 100 < g.deltaDeg * 35

\* angleSlowed.get(): the target angle with snap, off by the lag of the
\* smoothing spring and of the slowdown transform.
angleSlowed(c, lag) == c.angleOffset + c.snapMV + lag

\* animate(snapMV, target, {...}): snapAnimRef tracks the new animation; one
\* still running at that moment is no longer tracked.
animate(c, target) ==
    [c EXCEPT !.untracked = IF c.anim.active THEN @ \cup {c.anim} ELSE @,
              !.snapAnimRef = AnimationRef,
              !.anim = [active |-> TRUE, pos |-> c.snapMV, target |-> target]]

\* Mutant of startSnapAnim: the previous animation is not stopped.
startSnapAnimUnstopped(c, target) == animate(c, target)

\* stopSnapAnim(); snapAnimRef.current = animate(snapMV, target, {...})
startSnapAnim(c, target) == animate(stopSnapAnim(c), target)

\* Mutant of idleGate: the scroll-progress gate is left out.
idleGateHoldOnly(c) == c.idleMs < idleHoldMs

\* nowTs - lastMoveAtRef.current < idleHoldMs || uNow < uMinSnapGate
idleGate(c) == c.idleMs < idleHoldMs \/ c.u < uMinSnapGate

runCheck(c, vel, syVelNow, lag) ==
    LET raw == angleSlowed(c, lag)
        best == nearest(raw, c.geom, c.props)
    IN IF idleGate(c)
       THEN [c EXCEPT !.checked = "gated"]
       ELSE IF vel > velIdle \/ Abs(syVelNow) > syIdle
            THEN [commitSnapToBase(releaseDwell(c)) EXCEPT !.checked = "moving"]
            ELSE IF withinThreshold(best, c.geom)
                 THEN LET d == c.geom.baseAngles[best.bestIdx] + raw - c.geom.centerRefDeg
                          target == -snapNorm(d)
                          locked == [c EXCEPT
                                       !.dwell = [active |-> TRUE, idx |-> best.bestIdx],
                                       !.snaps = @ + 1, !.raw = raw]
                      IN IF Abs(target) < SnapEps
                         THEN [stopSnapAnim(locked) EXCEPT
                                  !.snapMV = target, !.checked = "set"]
                         ELSE [startSnapAnim(locked, target) EXCEPT !.checked = "animate"]
                 ELSE [commitSnapToBase(releaseDwell(c)) EXCEPT
                          !.raw = raw, !.checked = "release"]

\* The inputs of the handlers: angular speed, velocity of scroll progress,
\* lag of angleSlowed behind its target, scroll positions, viewport widths.
Vels == {18, 19}

SyVels == {0, 25, -26}

Lags == {0, 20}

Us == {0, 1, 4, 18, 22}

SnapWidths == {1280}

\* The spring of animate(snapMV, target): a frame halves the distance to the
\* target, and reaches it once within SpringRest.
SpringRest == CDeg(4)

springStep(pos, target) ==
    IF Abs(target - pos) <= SpringRest THEN target ELSE pos + (target - pos) \div 2

\* The values a handler leaves for inspection: which handler ran last, how
\* its runCheck ended, the angle it read.
Seen(c, last) == [c EXCEPT !.last = last]

Unseen(c) == [c EXCEPT !.last = "env", !.checked = "none", !.raw = 0]

\* The useTransform of angleOffset.
Transformed(c) ==
    [c EXCEPT !.angleOffset = angleOffset(c.u, c.geom, c.props, c.committedAngleMV)]

\* if (timeoutId) { window.clearTimeout(timeoutId); timeoutId = null; }
clearTimer(c) ==
    IF c.timeoutId # 0
    THEN [c EXCEPT !.timers = {t \in @ : t.id # c.timeoutId}, !.timeoutId = 0]
    ELSE c

\* The id window.setTimeout returns: one that no pending timer has.
newTimerId(c) ==
    CHOOSE id \in 1..(Cardinality(c.timers) + 2) :
        /\ id # c.timeoutId
        /\ \A t \in c.timers : t.id # id
        /\ \A k \in 1..(id - 1) : k = c.timeoutId \/ \E t \in c.timers : t.id = k

\* The state after the first render and its effects.
Mounted ==
    Transformed(
        [props |-> DemoProps, vw |-> Null, geom |-> Geometry(Null, DemoProps), u |-> 0,
         angleOffset |-> 0,
         committedAngleMV |-> 0, snapMV |-> 0, snapAnimRef |-> NullRef, anim |-> NoAnim,
         untracked |-> {}, notified |-> 0,
         dwell |-> Released, timeoutId |-> 0, timers |-> {}, prevVel |-> 0, idleMs |-> 0,
         subscribed |-> TRUE, snaps |-> 0, last |-> "env", checked |-> "none", raw |-> 0])

\* onChange, moving branch excluded
onChangeIdle(c, prevVel, currentVel, syVel, lag) ==
    LET checked == IF prevVel > velIdle /\ currentVel <= velIdle
                   THEN runCheck(c, currentVel, syVel, lag)
                   ELSE c
        \* runCheck schedules and clears no timer
        id == newTimerId(c)
    IN [checked EXCEPT !.timers = @ \cup {[id |-> id, dueIn |-> recheckMs]},
                       !.timeoutId = id]

\* Mutant of onChangeMoving: the snap is not committed.
onChangeMovingNoCommit(c) == [releaseDwell(c) EXCEPT !.idleMs = 0]

\* onChange, moving branch
onChangeMoving(c) == [commitSnapToBase(releaseDwell(c)) EXCEPT !.idleMs = 0]

\* moving = currentVel > velIdle || Math.abs(syVel) > syIdle
moving(currentVel, syVel) == currentVel > velIdle \/ Abs(syVel) > syIdle

\* onChange, the listener of angleSlowed's change event
onChange(c, currentVel, syVel, lag) ==
    LET c0 == [clearTimer(c) EXCEPT !.checked = "none", !.raw = 0]
        prevVel == c0.prevVel
        c1 == [c0 EXCEPT !.prevVel = currentVel]
    IN IF moving(currentVel, syVel)
       THEN Transformed(Seen(onChangeMoving(c1), "moving"))
       ELSE Transformed(Seen(onChangeIdle(c1, prevVel, currentVel, syVel, lag), "idle"))

\* The change event of angleSlowed.
OnChange(currentVel, syVel, lag) ==
    /\ carousel.subscribed
    /\ carousel.snaps < MaxSnaps
    /\ carousel' = onChange(carousel, currentVel, syVel, lag)

\* The timer t runs its callback, runCheck.
timerFired(c, t, vel, syVelNow, lag) ==
    LET c0 == [c EXCEPT !.timers = @ \ {t}, !.checked = "none", !.raw = 0]
    IN Transformed(Seen(runCheck(c0, vel, syVelNow, lag), "timer"))

\* A pending timer comes due and runs runCheck.
TimerFires(vel, syVelNow, lag) ==
    /\ carousel.snaps < MaxSnaps
    /\ \E t \in carousel.timers :
        /\ t.dueIn = 0
        /\ carousel' = timerFired(carousel, t, vel, syVelNow, lag)

\* A frame of the snap animation: it writes snapMV, and on reaching the
\* target it ends and calls onComplete, which is commitSnapToBase.
AnimFrame ==
    /\ carousel.anim.active
    /\ LET pos == springStep(carousel.anim.pos, carousel.anim.target)
           c0 == [Unseen(carousel) EXCEPT !.anim.pos = pos, !.snapMV = pos]
       IN carousel' =
            IF pos = carousel.anim.target
            THEN Transformed(Seen(commitSnapToBase([c0 EXCEPT !.anim.active = FALSE]),
                                  "complete"))
            ELSE c0

\* Time passes.
Tick ==
    /\ carousel.subscribed
    /\ carousel' =
         [Unseen(carousel) EXCEPT
            !.idleMs = Min(@ + TickMs, IdleCap),
            !.timers = {[id |-> t.id, dueIn |-> Max(0, t.dueIn - TickMs)] : t \in @}]
    /\ carousel' # carousel

\* The user scrolls: scrollYProgress changes.
Scroll(u) ==
    /\ carousel.subscribed
    /\ u # carousel.u
    /\ carousel' = Transformed([Unseen(carousel) EXCEPT !.u = u])

\* Mutant of cleanup: the running snap animation is not stopped.
cleanupKeepsAnimation(c) ==
    [(IF c.timeoutId # 0
      THEN [c EXCEPT !.timers = {t \in @ : t.id # c.timeoutId}]
      ELSE c) EXCEPT !.subscribed = FALSE]

\* The snap effect's cleanup:
\* if (timeoutId) window.clearTimeout(timeoutId); stopSnapAnim(); unsub();
cleanup(c) ==
    [stopSnapAnim(IF c.timeoutId # 0
                  THEN [c EXCEPT !.timers = {t \in @ : t.id # c.timeoutId}]
                  ELSE c) EXCEPT !.subscribed = FALSE]

\* The component unmounts: the snap effect is cleaned up and not run again.
Unmount ==
    /\ carousel.subscribed
    /\ carousel' = Seen(cleanup(Unseen(carousel)), "unmount")

\* The window is measured or resized: the component renders again, the snap
\* effect is cleaned up and runs anew.
Resize(innerWidth) ==
    /\ carousel.subscribed
    /\ LET cleaned == cleanup(carousel)
       IN carousel' =
            Transformed(Seen([cleaned EXCEPT !.subscribed = TRUE,
                                             !.vw = Measured(innerWidth),
                                             !.geom = Geometry(Measured(innerWidth), cleaned.props),
                                             !.timeoutId = 0,
                                             !.prevVel = 0, !.idleMs = 0, !.checked = "none",
                                             !.raw = 0],
                             "render"))

InitSnap ==
    /\ users = Idle
    /\ user = Idle
    /\ pages = NotMounted
    /\ layout = NotMounted
    /\ carousel = Mounted

NextSnap ==
    \/ (\E v \in Vels, sy \in SyVels, lag \in Lags : OnChange(v, sy, lag))
          /\ UNCHANGED <<users, user, pages, layout>>
    \/ (\E v \in Vels, sy \in SyVels, lag \in Lags : TimerFires(v, sy, lag))
          /\ UNCHANGED <<users, user, pages, layout>>
    \/ AnimFrame /\ UNCHANGED <<users, user, pages, layout>>
    \/ Tick /\ UNCHANGED <<users, user, pages, layout>>
    \/ (\E u \in Us : Scroll(u)) /\ UNCHANGED <<users, user, pages, layout>>
    \/ (\E w \in SnapWidths : Resize(w)) /\ UNCHANGED <<users, user, pages, layout>>
    \/ Unmount /\ UNCHANGED <<users, user, pages, layout>>

SpecSnap == InitSnap /\ [][NextSnap]_vars

\* The mapping of scroll progress and viewport alone: the offset every
\* (u, viewport) has when it is reached by scrolling and resizing only.
StatelessOffset(c) ==
    LET g == Geometry(c.vw, c.props) IN signed(c.u, g, c.props) + g.effectiveInitialOffset

\* committedAngleMV + snapMV
Combined(c) == c.committedAngleMV + c.snapMV

\* C13 as stated: the angle offset fed to the items is a function of the
\* current scroll progress and viewport only, whatever the history.
C13_OffsetStateless == carousel.angleOffset = StatelessOffset(carousel)

\* C13, amended: the angle offset is the stateless mapping of scroll progress
\* and viewport plus committedAngleMV, which persists across frames: it is 0
\* until a snap has been started, and it changes only by a commit of a snap
\* value larger than 0.2 degree, which is added to it.
C13_OffsetStatelessPlusCommitted ==
    /\ [](/\ carousel.angleOffset = StatelessOffset(carousel) + carousel.committedAngleMV
          /\ carousel.snaps = 0 => carousel.committedAngleMV = 0)
    /\ [][carousel'.committedAngleMV # carousel.committedAngleMV =>
            /\ carousel'.snapMV = 0
            /\ Abs(carousel'.committedAngleMV - carousel.committedAngleMV) > SnapEps
            /\ carousel'.committedAngleMV - carousel.committedAngleMV
                  \in {carousel.snapMV, carousel.anim.target}]_vars

\* Back at the start of the pin on the desktop layout, after a snap was
\* committed on the way: the offset differs from the one at mount.
C13_Witness ==
    /\ carousel.u = 0
    /\ carousel.vw = Measured(1280)
    /\ carousel.committedAngleMV # 0
    /\ carousel.snapMV = 0
    /\ carousel.angleOffset # StatelessOffset(carousel)

C17_MovingCancelsSnap == carousel.last = "moving" => ~carousel.anim.active

\* C18: after a change event that finds the carousel moving, the dwell lock
\* is released, snapMV is 0, the time of movement is now, and no idle check
\* is scheduled: the pending one was cancelled and none was set.
C18_MovingEffects ==
    carousel.last = "moving" =>
        /\ carousel.dwell = [active |-> FALSE, idx |-> -1]
        /\ carousel.snapMV = 0
        /\ carousel.idleMs = 0
        /\ carousel.timeoutId = 0
        /\ carousel.timers = {}
        /\ carousel.checked = "none"

\* A moving change event after a committed snap.
C18_Witness ==
    /\ carousel.last = "moving"
    /\ carousel.committedAngleMV # 0
    /\ carousel.snaps = 1
    /\ carousel.timers = {}
    /\ ~carousel.dwell.active

\* C19: an idle check changes neither snapMV, committedAngleMV nor the dwell
\* lock when fewer than 160 ms have passed since the last movement or scroll
\* progress is below 0.02; a check that goes further has found the carousel
\* idle for the hold time and past the start of the pin.
C19_IdleGate ==
    /\ [](/\ carousel.checked = "gated" =>
                carousel.idleMs < idleHoldMs \/ carousel.u * 100 < 2 * UGrid
          /\ carousel.checked \in {"moving", "set", "animate", "release"} =>
                carousel.idleMs >= idleHoldMs /\ carousel.u * 100 >= 2 * UGrid
          /\ carousel.last = "timer" => carousel.checked # "none")
    /\ [][carousel'.checked = "gated" =>
            /\ carousel'.snapMV = carousel.snapMV
            /\ carousel'.committedAngleMV = carousel.committedAngleMV
            /\ carousel'.dwell = carousel.dwell
            /\ carousel'.anim = carousel.anim
            /\ carousel'.snaps = carousel.snaps]_vars

\* A timer's check at the very start of the pin, after the hold time: gated.
C19_Witness ==
    /\ carousel.last = "timer"
    /\ carousel.checked = "gated"
    /\ carousel.u = 0
    /\ carousel.idleMs >= idleHoldMs

\* The distance of item i to the center reference around the circle, signed,
\* in [-180, 180), for the angle raw.
SignedDistance(i, raw, c) ==
    ((c.geom.baseAngles[i] + raw - c.geom.centerRefDeg + CDeg(180)) % CDeg(360)) - CDeg(180)

\* The item nearest the center reference, the lowest index on ties.
NearestItem(raw, c) ==
    CHOOSE i \in 0..(c.props.items - 1) :
        \A j \in 0..(c.props.items - 1) :
            \/ Abs(SignedDistance(i, raw, c)) < Abs(SignedDistance(j, raw, c))
            \/ /\ Abs(SignedDistance(i, raw, c)) = Abs(SignedDistance(j, raw, c))
               /\ i <= j

\* Angles at which the center reference is midway between two items, and
\* opposite the middle of the arc.
TieRaws(c) ==
    {c.geom.centerRefDeg - c.geom.baseAngles[i] - c.geom.deltaDeg \div 2 :
        i \in 0..(c.props.items - 2)}
    \cup {c.geom.centerRefDeg - mid(c.vw, c.props) + CDeg(180),
          c.geom.centerRefDeg - mid(c.vw, c.props) - CDeg(180)}

\* C20: a check past its gates that finds the carousel idle starts a snap
\* only if the item nearest the center reference (lowest index on ties) is
\* closer than 0.35 of the spacing: the dwell lock is then active with that
\* item's index and the snap target is minus its signed distance; otherwise
\* the dwell lock is released and the snap offset committed.
C20_SnapNearest ==
    LET c == carousel
        i == NearestItem(c.raw, c)
        target == IF c.checked = "set" THEN c.snapMV ELSE c.anim.target
    IN /\ c.checked \in {"set", "animate"} =>
             /\ Abs(SignedDistance(i, c.raw, c)) * 100 < c.geom.deltaDeg * 35
             /\ c.dwell = [active |-> TRUE, idx |-> i]
             /\ target = -SignedDistance(i, c.raw, c)
       /\ c.checked = "set" => Abs(target) * 5 < CDeg(1) /\ ~c.anim.active
       /\ c.checked = "animate" =>
             /\ Abs(target) * 5 >= CDeg(1)
             /\ c.anim.active /\ c.snapAnimRef = AnimationRef
       /\ c.checked = "release" =>
             /\ Abs(SignedDistance(i, c.raw, c)) * 100 >= c.geom.deltaDeg * 35
             /\ c.dwell = [active |-> FALSE, idx |-> -1]
             /\ c.snapMV = 0
       /\ c.geom = Geometry(c.vw, c.props)
       /\ \A raw \in TieRaws(c) : nearest(raw, c.geom, c.props).bestIdx = NearestItem(raw, c)
       /\ \E raw \in TieRaws(c) :
             Abs(SignedDistance(0, raw, c)) = Abs(SignedDistance(1, raw, c))

\* On the desktop layout the second item rests 3.75 degrees above the
\* center: the check locks it and animates snapMV to -3.75.
C20_Witness ==
    /\ carousel.checked = "animate"
    /\ carousel.vw = Measured(1280)
    /\ carousel.u = 18
    /\ carousel.dwell = [active |-> TRUE, idx |-> 1]
    /\ carousel.anim = [active |-> TRUE, pos |-> 0, target |-> -375]

\* C21: at every moment at most one idle-check timer is pending, the one
\* timeoutId names, and at most one snap animation runs, the one snapAnimRef
\* tracks; a change event that schedules a check leaves exactly the new timer.
C21_OneTimerOneAnimation ==
    /\ [](/\ Cardinality(carousel.timers) <= 1
          /\ \A t \in carousel.timers : t.id = carousel.timeoutId
          /\ carousel.untracked = {}
          /\ carousel.anim.active => carousel.snapAnimRef = AnimationRef)
    /\ [][carousel'.last = "idle" =>
            carousel'.timers = {[id |-> carousel'.timeoutId, dueIn |-> recheckMs]}]_vars

\* A change event on entering idle has started a second snap animation and
\* scheduled the next check.
C21_Witness ==
    /\ carousel.last = "idle"
    /\ carousel.checked = "animate"
    /\ carousel.snaps = 2
    /\ carousel.anim.active
    /\ Cardinality(carousel.timers) = 1
    /\ carousel.untracked = {}

\* C23: once the snap effect's cleanup has run, no idle timer is pending, no
\* snap animation runs and the listener is gone: after an unmount no idle
\* check runs and snapMV and committedAngleMV are written no more, and a
\* new effect starts with no timer and no animation of the old one.
C23_CleanupStopsEverything ==
    /\ [](carousel.last \in {"render", "unmount"} =>
            /\ carousel.timers = {}
            /\ ~carousel.anim.active
            /\ carousel.untracked = {}
            /\ carousel.snapAnimRef = NullRef)
    /\ [](carousel.subscribed <=> carousel.last # "unmount")
    /\ [][~carousel.subscribed => carousel' = carousel]_vars

\* The component was unmounted after a check had scheduled a timer and
\* while a snap animation was on its way.
C23_Witness ==
    /\ ~carousel.subscribed
    /\ carousel.last = "unmount"
    /\ carousel.timeoutId # 0
    /\ carousel.anim.pos # carousel.anim.target
    /\ carousel.snapMV # carousel.anim.target

\* ---------------------------------------------------------------------
\* The carousel once scrolling has stopped: scrollYProgress keeps its value
\* and the smoothing springs come to rest, so that angleSlowed is the
\* slowdown transform of angleOffset + snapMV and changes only when
\* snapMV or committedAngleMV do.

\* The resolution of Math.pow(1 - t, 2.2) in the slowdown transform.
SlowGrid == 50

\* const minScale = 0.78, in hundredths
minScale == 78

\* Math.round(a / b), b > 0
RoundDiv(a, b) == (2 * a + b) \div (2 * b)

\* Math.pow(w, 0.2) for w in 0..SlowGrid, on the same grid
FifthRoot(w) ==
    CHOOSE r \in 0..SlowGrid :
        /\ IntPow(r, 5) <= w * IntPow(SlowGrid, 4)
        /\ w * IntPow(SlowGrid, 4) < IntPow(r + 1, 5)

\* The transform that makes angleSlowed of angleDriver: the angle is pulled
\* towards the nearest centre by rel * (1 - k), k = minScale + (1 - minScale)
\* * easeOut, easeOut = 1 - (1 - t)^2.2, t = min(|rel| / slowRadius, 1).
slowdown(a, g) ==
    IF Cardinality(DOMAIN g.baseAngles) <= 1 \/ g.deltaDeg = 0
    THEN a
    ELSE LET spacing == g.deltaDeg
             phase0 == g.baseAngles[0] - g.centerRefDeg
             r0 == (a + phase0) % spacing
             rel == IF 2 * r0 > spacing THEN r0 - spacing ELSE r0
             \* slowRadius = clearDeg * 0.7 = spacing * 7 / 20; w = 1 - t
             w == Max(0, SlowGrid - RoundDiv(Abs(rel) * SlowGrid * 20, 7 * spacing))
             \* (1 - minScale) * w^2.2, in 1 / (100 * SlowGrid)
             p == ((100 - minScale) * w * w * FifthRoot(w)) \div (SlowGrid * SlowGrid)
         IN a - RoundDiv(rel * p, 100 * SlowGrid)

\* angleSlowed.get() with the springs at rest
angleSlowedAtRest(c) == slowdown(c.angleOffset + c.snapMV, c.geom)

\* What the slowdown adds to the target angle.
RestLag(c) == angleSlowedAtRest(c) - (c.angleOffset + c.snapMV)

\* Where the scroll may have stopped, the viewport, and the angular speeds
\* of the settling springs, none above velIdle.
RestUs == {1, 2, 4, 18}

RestWidths == {Measured(390), Measured(1280)}

RestVels == {0, 18}

\* angleSlowed has a value its listeners have not seen: the change event
\* is delivered. The scroll is at rest, so its velocity is 0.
RestChange ==
    /\ carousel.subscribed
    /\ angleSlowedAtRest(carousel) # carousel.notified
    /\ \E v \in RestVels, lag \in {RestLag(carousel)} :
         carousel' = [onChange(carousel, v, 0, lag) EXCEPT
                         !.notified = angleSlowedAtRest(carousel), !.snaps = 0]

\* A pending timer comes due and runs runCheck.
RestTimer ==
    \E t \in carousel.timers, lag \in {RestLag(carousel)} :
        /\ t.dueIn = 0
        /\ carousel' = [timerFired(carousel, t, 0, 0, lag) EXCEPT !.snaps = 0]

\* The scroll has just stopped at u: the last change event was delivered
\* while the carousel still moved, or at rest; nothing is snapped yet.
InitRest ==
    /\ users = Idle
    /\ user = Idle
    /\ pages = NotMounted
    /\ layout = NotMounted
    /\ \E u \in RestUs, vw \in RestWidths, prevVel \in {0, 19}, idleMs \in {0, IdleCap} :
         carousel = Transformed([Mounted EXCEPT !.u = u, !.vw = vw,
                                                !.geom = Geometry(vw, DemoProps),
                                                !.prevVel = prevVel, !.idleMs = idleMs])

NextRest ==
    \/ RestChange /\ UNCHANGED <<users, user, pages, layout>>
    \/ RestTimer /\ UNCHANGED <<users, user, pages, layout>>
    \/ AnimFrame /\ UNCHANGED <<users, user, pages, layout>>
    \/ Tick /\ UNCHANGED <<users, user, pages, layout>>

\* Delivered events, due timers, animation frames and the clock all run.
SpecRest ==
    /\ InitRest
    /\ [][NextRest]_vars
    /\ WF_vars(RestChange /\ UNCHANGED <<users, user, pages, layout>>)
    /\ WF_vars(RestTimer /\ UNCHANGED <<users, user, pages, layout>>)
    /\ WF_vars(AnimFrame /\ UNCHANGED <<users, user, pages, layout>>)
    /\ WF_vars(Tick /\ UNCHANGED <<users, user, pages, layout>>)

Quiescent ==
    /\ carousel.timers = {}
    /\ ~carousel.anim.active
    /\ angleSlowedAtRest(carousel) = carousel.notified

\* C22: with the scroll at rest at u >= 0.02 the snap logic eventually
\* quiesces: from some moment on no idle timer is pending, no snap animation
\* runs, and no change event is left to deliver.
C22_Quiesces == <>[]Quiescent

====
